---- MODULE Spec2Model ----
(***************************************************************************)
(* Entitlement reconciliation of the Stripe + Supabase billing package:    *)
(* the plan catalog and the entitlement mapper (billing/plans.ts), the     *)
(* webhook receiver (webhook/stripe.ts and its built form                  *)
(* dist/webhook/index.js) and the billing server actions                   *)
(* (billing/actions.ts).                                                   *)
(***************************************************************************)
EXTENDS Integers, Sequences, FiniteSets, TLC

(***************************************************************************)
(* JavaScript values                                                       *)
(***************************************************************************)
\* null / undefined of a string-valued field or column
Null == "null"
\* null of a number-valued field (trial_end: number | null)
NoTime == 0 - 1

(***************************************************************************)
(* Plan catalog (billing/plans.ts)                                         *)
(***************************************************************************)
PriceContentPack == "price_content_pack"
PriceProMonthly == "price_pro_monthly"
PriceProAnnual == "price_pro_annual"
\* a price of the provider account that no catalog plan refers to
PriceOther == "price_other"

billingPlans ==
  << [id |-> "content_pack", priceId |-> PriceContentPack, amount |-> 1500,
      currency |-> "gbp", interval |-> "one_time",
      flags |-> <<"content_pack">>],
     [id |-> "pro_monthly", priceId |-> PriceProMonthly, amount |-> 1200,
      currency |-> "gbp", interval |-> "month",
      flags |-> <<"pro_content", "download_access">>],
     [id |-> "pro_annual", priceId |-> PriceProAnnual, amount |-> 12000,
      currency |-> "gbp", interval |-> "year",
      flags |-> <<"pro_content", "download_access", "priority_support">>] >>

\* the elements of an array, as a set
Elems(s) == { s[i] : i \in 1..Len(s) }

\* Array.prototype.includes
Includes(s, x) == x \in Elems(s)

\* Array.prototype.filter
RECURSIVE Filter(_, _)
Filter(s, keep) ==
  IF s = <<>> THEN <<>>
  ELSE IF Head(s) \in keep THEN <<Head(s)>> \o Filter(Tail(s), keep)
       ELSE Filter(Tail(s), keep)

\* Array.from(new Set(s)): the first occurrence of each element, in order
RECURSIVE UniqueFrom(_, _)
UniqueFrom(acc, s) ==
  IF s = <<>> THEN acc
  ELSE IF Includes(acc, Head(s)) THEN UniqueFrom(acc, Tail(s))
       ELSE UniqueFrom(Append(acc, Head(s)), Tail(s))

ArrayFromSet(s) == UniqueFrom(<<>>, s)

\* getFlagsForPriceIds: billingPlans.forEach(plan => if includes, add flags)
RECURSIVE FlagsOfPlans(_, _, _)
FlagsOfPlans(acc, plans, priceIds) ==
  IF plans = <<>> THEN acc
  ELSE IF Includes(priceIds, Head(plans).priceId)
       THEN FlagsOfPlans(UniqueFrom(acc, Head(plans).flags), Tail(plans), priceIds)
       ELSE FlagsOfPlans(acc, Tail(plans), priceIds)

\* getFlagsForPriceIds collecting the flags in an array instead of a Set
getFlagsForPriceIdsWithoutSet(priceIds) ==
  (IF Includes(priceIds, billingPlans[1].priceId) THEN billingPlans[1].flags ELSE <<>>)
  \o (IF Includes(priceIds, billingPlans[2].priceId) THEN billingPlans[2].flags ELSE <<>>)
  \o (IF Includes(priceIds, billingPlans[3].priceId) THEN billingPlans[3].flags ELSE <<>>)

getFlagsForPriceIds(priceIds) == FlagsOfPlans(<<>>, billingPlans, priceIds)

\* subscriptionFlagSet without the filter on the interval
subscriptionFlagSetOfAllPlans ==
  UNION { Elems(billingPlans[i].flags) : i \in 1..Len(billingPlans) }

\* new Set(billingPlans.filter(interval !== 'one_time').flatMap(flags))
subscriptionFlagSet ==
  UNION { Elems(billingPlans[i].flags) :
            i \in { j \in 1..Len(billingPlans) : billingPlans[j].interval /= "one_time" } }

\* undefined, as Array.prototype.find returns it
NoPlan ==
  [id |-> Null, priceId |-> Null, amount |-> 0, currency |-> Null,
   interval |-> Null, flags |-> <<>>]

\* billingPlans.find(plan => plan.priceId === priceId)
getPlanByPriceId(priceId) ==
  LET hits == { i \in 1..Len(billingPlans) : billingPlans[i].priceId = priceId }
  IN IF hits = {} THEN NoPlan
     ELSE billingPlans[CHOOSE i \in hits : \A j \in hits : i <= j]

(***************************************************************************)
(* Datastore: the profiles table                                           *)
(***************************************************************************)
Users == {"u1", "u2"}
SubIds == {"sub_1", "sub_2"}

\* new Date(unixSeconds * 1000).toISOString()
IsoString(unixSeconds) ==
  IF unixSeconds = 1700000000 THEN "2023-11-14T22:13:20.000Z"
  ELSE ToString(unixSeconds)

\* toIsoString: null and 0 are falsy
toIsoString(unixSeconds) ==
  IF unixSeconds = NoTime \/ unixSeconds = 0 THEN Null
  ELSE IsoString(unixSeconds)

\* a row as the migration leaves it: feature_flags JSONB DEFAULT '[]'
NewProfile(customerId) ==
  [stripe_customer_id |-> customerId,
   stripe_subscription_id |-> Null,
   stripe_subscription_status |-> Null,
   stripe_price_id |-> Null,
   stripe_current_period_end |-> Null,
   stripe_trial_end |-> Null,
   feature_flags |-> <<>>]

\* supabase .update(updates): the named columns are overwritten
ApplyUpdates(row, updates) ==
  [c \in DOMAIN row |-> IF c \in DOMAIN updates THEN updates[c] ELSE row[c]]

\* rows selected by .eq('stripe_customer_id', id)
RowsOfCustomer(profs, stripeCustomerId) ==
  { u \in Users : profs[u].stripe_customer_id = stripeCustomerId }

(***************************************************************************)
(* Webhook handlers (webhook/stripe.ts)                                    *)
(* fail names the call of the invocation that fails: "none", "key"         *)
(* (createAdminClient without service-role key), "retrieve" (provider),    *)
(* "read" or "write" (datastore).                                          *)
(***************************************************************************)
FailModes == {"none", "key", "retrieve", "read", "write"}

\* getProfileFlagsForCustomer: .single() errors unless exactly one row
getProfileFlagsForCustomer(profs, stripeCustomerId, fail) ==
  LET rows == RowsOfCustomer(profs, stripeCustomerId)
  IN IF fail \in {"key", "read"} \/ Cardinality(rows) /= 1
     THEN [threw |-> TRUE, flags |-> <<>>]
     ELSE [threw |-> FALSE,
           flags |-> profs[CHOOSE u \in rows : TRUE].feature_flags]

\* updateProfileForCustomer: every row of the customer takes the updates
updateProfileForCustomer(profs, stripeCustomerId, updates) ==
  [u \in Users |->
     IF u \in RowsOfCustomer(profs, stripeCustomerId)
     THEN ApplyUpdates(profs[u], updates) ELSE profs[u]]

\* handlePaymentIntentSucceeded pushing the flags without the Set
PaymentIntentUpdatesAppending(paymentIntent, currentFlags) ==
  [feature_flags |-> currentFlags \o getFlagsForPriceIds(<<paymentIntent.price_id>>)]

\* handlePaymentIntentSucceeded storing the price's flags alone
PaymentIntentUpdatesReplacing(paymentIntent, currentFlags) ==
  [feature_flags |-> getFlagsForPriceIds(<<paymentIntent.price_id>>)]

\* handlePaymentIntentSucceeded storing the price id beside the flags
PaymentIntentUpdatesStoringPriceId(paymentIntent, currentFlags) ==
  [feature_flags |->
     ArrayFromSet(currentFlags \o <<paymentIntent.price_id>>
                  \o getFlagsForPriceIds(<<paymentIntent.price_id>>))]

\* handlePaymentIntentSucceeded, lines 49-55: the updates it writes
PaymentIntentUpdates(paymentIntent, currentFlags) ==
  LET flags == getFlagsForPriceIds(<<paymentIntent.price_id>>)
  IN [feature_flags |-> ArrayFromSet(currentFlags \o flags)]

\* subscription.items.data.map(item => item.price?.id).filter(Boolean)
SubscriptionPriceIds(subscription) ==
  Filter(subscription.items, Elems(subscription.items) \ {Null})

\* handleSubscriptionUpdate merging the new flags into all stored flags
SubscriptionUpdatesMerging(subscription, currentFlags) ==
  LET priceIds == Filter(subscription.items, Elems(subscription.items) \ {Null})
  IN [stripe_subscription_id |-> subscription.id,
      stripe_subscription_status |-> subscription.status,
      stripe_price_id |-> IF priceIds = <<>> THEN Null ELSE priceIds[1],
      stripe_current_period_end |-> toIsoString(subscription.current_period_end),
      stripe_trial_end |-> toIsoString(subscription.trial_end),
      feature_flags |-> ArrayFromSet(currentFlags \o getFlagsForPriceIds(priceIds))]

\* handleSubscriptionUpdate leaving stripe_price_id out of the updates
SubscriptionUpdatesWithoutPrice(subscription, currentFlags) ==
  LET priceIds == Filter(subscription.items, Elems(subscription.items) \ {Null})
      retainedFlags == Filter(currentFlags, Elems(currentFlags) \ subscriptionFlagSet)
  IN [stripe_subscription_id |-> subscription.id,
      stripe_subscription_status |-> subscription.status,
      stripe_current_period_end |-> toIsoString(subscription.current_period_end),
      stripe_trial_end |-> toIsoString(subscription.trial_end),
      feature_flags |-> ArrayFromSet(retainedFlags \o getFlagsForPriceIds(priceIds))]

\* handleSubscriptionUpdate, lines 61-77: the updates it writes
SubscriptionUpdates(subscription, currentFlags) ==
  LET priceIds == SubscriptionPriceIds(subscription)
      flags == getFlagsForPriceIds(priceIds)
      retainedFlags == Filter(currentFlags, Elems(currentFlags) \ subscriptionFlagSet)
  IN [stripe_subscription_id |-> subscription.id,
      stripe_subscription_status |-> subscription.status,
      stripe_price_id |-> IF priceIds = <<>> THEN Null ELSE priceIds[1],
      stripe_current_period_end |-> toIsoString(subscription.current_period_end),
      stripe_trial_end |-> toIsoString(subscription.trial_end),
      feature_flags |-> ArrayFromSet(retainedFlags \o flags)]

\* handleSubscriptionDeleted, lines 83-91: the updates it writes
SubscriptionDeletedUpdates(subscription, currentFlags) ==
  LET retainedFlags == Filter(currentFlags, Elems(currentFlags) \ subscriptionFlagSet)
  IN [stripe_subscription_id |-> subscription.id,
      stripe_subscription_status |-> subscription.status,
      stripe_current_period_end |-> toIsoString(subscription.current_period_end),
      feature_flags |-> retainedFlags]

\* what a handler leaves: the table, whether it threw, and the number of
\* profile reads, profile writes and provider calls it issued
Outcome(profs, threw, reads, writes, calls) ==
  [profiles |-> profs, threw |-> threw, reads |-> reads, writes |-> writes,
   calls |-> calls]

\* the read-modify-write storing the flags in a statement of their own
\* before the failing update of the other columns
ReadModifyWriteInTwoStatements(profs, customer, kind, object, fail, calls) ==
  LET rd == getProfileFlagsForCustomer(profs, customer, fail)
      updates == CASE kind = "payment_intent" -> PaymentIntentUpdates(object, rd.flags)
                   [] kind = "subscription" -> SubscriptionUpdates(object, rd.flags)
                   [] OTHER -> SubscriptionDeletedUpdates(object, rd.flags)
  IN IF rd.threw
     THEN Outcome(profs, TRUE, IF fail = "key" THEN 0 ELSE 1, 0, calls)
     ELSE IF fail = "write"
          THEN Outcome(updateProfileForCustomer(profs, customer,
                         [feature_flags |-> updates.feature_flags]),
                       TRUE, 1, 2, calls)
          ELSE Outcome(updateProfileForCustomer(profs, customer, updates),
                       FALSE, 1, 2, calls)

\* the read-modify-write every handler ends with
ReadModifyWrite(profs, customer, kind, object, fail, calls) ==
  LET rd == getProfileFlagsForCustomer(profs, customer, fail)
      updates == CASE kind = "payment_intent" -> PaymentIntentUpdates(object, rd.flags)
                   [] kind = "subscription" -> SubscriptionUpdates(object, rd.flags)
                   [] OTHER -> SubscriptionDeletedUpdates(object, rd.flags)
  IN IF rd.threw
     THEN Outcome(profs, TRUE, IF fail = "key" THEN 0 ELSE 1, 0, calls)
     ELSE IF fail = "write"
          THEN Outcome(profs, TRUE, 1, 1, calls)
          ELSE Outcome(updateProfileForCustomer(profs, customer, updates),
                       FALSE, 1, 1, calls)

handlePaymentIntentSucceeded(profs, paymentIntent, fail, calls) ==
  IF paymentIntent.price_id = Null \/ paymentIntent.customer = Null
  THEN Outcome(profs, FALSE, 0, 0, calls)
  ELSE ReadModifyWrite(profs, paymentIntent.customer, "payment_intent",
                       paymentIntent, fail, calls)

handleSubscriptionUpdate(profs, subscription, fail, calls) ==
  IF subscription.customer = Null
  THEN Outcome(profs, FALSE, 0, 0, calls)
  ELSE ReadModifyWrite(profs, subscription.customer, "subscription",
                       subscription, fail, calls)

handleSubscriptionDeleted(profs, subscription, fail, calls) ==
  IF subscription.customer = Null
  THEN Outcome(profs, FALSE, 0, 0, calls)
  ELSE ReadModifyWrite(profs, subscription.customer, "deleted",
                       subscription, fail, calls)

\* handleInvoicePaid treating the retrieved subscription as ended
handleInvoicePaidAsDeleted(profs, invoice, retrieved, fail) ==
  IF invoice.subscription = Null THEN Outcome(profs, FALSE, 0, 0, 0)
  ELSE IF fail = "retrieve" THEN Outcome(profs, TRUE, 0, 0, 1)
  ELSE handleSubscriptionDeleted(profs, retrieved, fail, 1)

\* handleInvoicePaid: retrieved is what stripe.subscriptions.retrieve returns
handleInvoicePaid(profs, invoice, retrieved, fail) ==
  IF invoice.subscription = Null THEN Outcome(profs, FALSE, 0, 0, 0)
  ELSE IF fail = "retrieve" THEN Outcome(profs, TRUE, 0, 0, 1)
  ELSE handleSubscriptionUpdate(profs, retrieved, fail, 1)

\* handleCheckoutSessionCompleted (dist/webhook/index.js): retrieved is the
\* payment intent or the subscription the provider returns
handleCheckoutSessionCompleted(profs, session, retrieved, fail) ==
  IF session.mode = "payment" /\ session.payment_intent /= Null
  THEN IF fail = "retrieve" THEN Outcome(profs, TRUE, 0, 0, 1)
       ELSE handlePaymentIntentSucceeded(profs, retrieved, fail, 1)
  ELSE IF session.mode = "subscription" /\ session.subscription /= Null
  THEN IF fail = "retrieve" THEN Outcome(profs, TRUE, 0, 0, 1)
       ELSE handleSubscriptionUpdate(profs, retrieved, fail, 1)
  ELSE Outcome(profs, FALSE, 0, 0, 0)

\* the switch with a default case that throws
DispatchRejectingUnknown(profs, event, retrieved, fail) ==
  CASE event.type = "payment_intent.succeeded" ->
         handlePaymentIntentSucceeded(profs, event.object, fail, 0)
    [] event.type = "invoice.paid" ->
         handleInvoicePaid(profs, event.object, retrieved, fail)
    [] event.type \in {"customer.subscription.created", "customer.subscription.updated"} ->
         handleSubscriptionUpdate(profs, event.object, fail, 0)
    [] event.type = "customer.subscription.deleted" ->
         handleSubscriptionDeleted(profs, event.object, fail, 0)
    [] event.type = "checkout.session.completed" ->
         handleCheckoutSessionCompleted(profs, event.object, retrieved, fail)
    [] OTHER -> Outcome(profs, TRUE, 0, 0, 0)

\* the switch of POST on event.type
Dispatch(profs, event, retrieved, fail) ==
  CASE event.type = "payment_intent.succeeded" ->
         handlePaymentIntentSucceeded(profs, event.object, fail, 0)
    [] event.type = "invoice.paid" ->
         handleInvoicePaid(profs, event.object, retrieved, fail)
    [] event.type \in {"customer.subscription.created", "customer.subscription.updated"} ->
         handleSubscriptionUpdate(profs, event.object, fail, 0)
    [] event.type = "customer.subscription.deleted" ->
         handleSubscriptionDeleted(profs, event.object, fail, 0)
    [] event.type = "checkout.session.completed" ->
         handleCheckoutSessionCompleted(profs, event.object, retrieved, fail)
    [] OTHER -> Outcome(profs, FALSE, 0, 0, 0)

\* POST dispatching on the parsed body when the signature does not verify
POSTWithoutVerification(profs, signature, event, retrieved, fail) ==
  IF signature = "missing"
  THEN [status |-> 400, dispatched |-> FALSE, out |-> Outcome(profs, FALSE, 0, 0, 0)]
  ELSE LET out == Dispatch(profs, event, retrieved, fail)
       IN [status |-> IF out.threw THEN 500 ELSE 200, dispatched |-> TRUE, out |-> out]

\* POST whose catch block logs the error and answers 200
POSTSwallowingErrors(profs, signature, event, retrieved, fail) ==
  IF signature = "missing"
  THEN [status |-> 400, dispatched |-> FALSE, out |-> Outcome(profs, FALSE, 0, 0, 0)]
  ELSE IF signature /= "valid"
  THEN [status |-> 400, dispatched |-> FALSE, out |-> Outcome(profs, FALSE, 0, 0, 0)]
  ELSE LET out == Dispatch(profs, event, retrieved, fail)
       IN [status |-> 200, dispatched |-> TRUE, out |-> out]

\* POST: signature is "missing", "bad" or "valid"; the response status,
\* whether a handler was dispatched, and the handler's outcome
POST(profs, signature, event, retrieved, fail) ==
  IF signature = "missing"
  THEN [status |-> 400, dispatched |-> FALSE, out |-> Outcome(profs, FALSE, 0, 0, 0)]
  ELSE IF signature /= "valid"
  THEN [status |-> 400, dispatched |-> FALSE, out |-> Outcome(profs, FALSE, 0, 0, 0)]
  ELSE LET out == Dispatch(profs, event, retrieved, fail)
       IN [status |-> IF out.threw THEN 500 ELSE 200, dispatched |-> TRUE, out |-> out]

(***************************************************************************)
(* Provider objects and webhook requests                                   *)
(***************************************************************************)
SubStatuses ==
  {"incomplete", "incomplete_expired", "trialing", "active", "past_due",
   "canceled", "unpaid", "paused"}

PriceIds == {PriceContentPack, PriceProMonthly, PriceProAnnual, PriceOther}

\* longest items list of a subscription object
MaxItems == 2

ItemPrices == {PriceProMonthly, PriceProAnnual, PriceOther, Null}

ItemLists == UNION { [1..n -> ItemPrices] : n \in 0..MaxItems }

PeriodEnds == {0, 1700000000}
TrialEnds == {NoTime, 1700000000}

Subscription(id, customer, status, items, periodEnd, trialEnd) ==
  [id |-> id, customer |-> customer, status |-> status, items |-> items,
   current_period_end |-> periodEnd, trial_end |-> trialEnd]

PaymentIntent(id, customer, priceId) ==
  [id |-> id, customer |-> customer, price_id |-> priceId]

Invoice(subscription) == [subscription |-> subscription]

Session(mode, customer, paymentIntent, subscription, priceId) ==
  [mode |-> mode, customer |-> customer, payment_intent |-> paymentIntent,
   subscription |-> subscription, price_id |-> priceId]

\* Subscription objects of customer cus_1 (who has a profile row): every
\* status, every items list, and every id with every period and trial end.
SubsByStatus ==
  { Subscription("sub_1", "cus_1", st, <<PriceProMonthly>>, 1700000000, NoTime) :
      st \in SubStatuses }
SubsByItems ==
  { Subscription("sub_1", "cus_1", "active", it, 1700000000, NoTime) :
      it \in ItemLists }
SubsByIdAndTime ==
  { Subscription(id, "cus_1", st, <<PriceProAnnual>>, pe, te) :
      id \in SubIds, st \in {"trialing", "canceled"}, pe \in PeriodEnds,
      te \in TrialEnds }
\* Subscription objects without a customer and of a customer without a row
SubsOfStrangers ==
  { Subscription("sub_2", c, "active", <<PriceProAnnual>>, 1700000000, NoTime) :
      c \in {"cus_2", Null} }

SubObjects == SubsByStatus \cup SubsByItems \cup SubsByIdAndTime \cup SubsOfStrangers

PaymentIntentObjects ==
  { PaymentIntent("pi_1", "cus_1", p) : p \in PriceIds \cup {Null} }
  \cup { PaymentIntent("pi_1", c, PriceContentPack) : c \in {"cus_2", Null} }

Event(type, object) == [type |-> type, object |-> object]

NoObject == [id |-> Null]

SubscriptionEventTypes ==
  {"customer.subscription.created", "customer.subscription.updated",
   "customer.subscription.deleted"}

\* events whose handler needs nothing from the provider
DirectEvents ==
  { Event("payment_intent.succeeded", o) : o \in PaymentIntentObjects }
  \cup { Event(t, o) : t \in {"customer.subscription.created",
                                "customer.subscription.updated"},
                        o \in SubObjects }
  \cup { Event("customer.subscription.deleted", o) :
           o \in SubsByStatus \cup SubsByIdAndTime \cup SubsOfStrangers }
  \cup { Event("customer.updated", NoObject) }

\* events whose handler retrieves an object from the provider, with the
\* objects the provider can return for them
RetrievingEvents ==
  { Event("invoice.paid", Invoice(id)) : id \in SubIds \cup {Null} }
  \cup { Event("checkout.session.completed", Session("payment", "cus_1", "pi_1", Null, p)) :
           p \in {PriceContentPack} }
  \cup { Event("checkout.session.completed", Session("subscription", "cus_1", Null, id, p)) :
           id \in SubIds, p \in {PriceProMonthly} }
  \cup { Event("checkout.session.completed", Session("setup", "cus_1", Null, Null, Null)) }

Retrievable(event) ==
  IF event.type = "invoice.paid"
  THEN IF event.object.subscription = Null THEN {NoObject}
       ELSE { o \in SubsByStatus \cup SubsByIdAndTime \cup SubsOfStrangers :
                o.id = event.object.subscription }
  ELSE IF event.object.mode = "payment" THEN PaymentIntentObjects
  ELSE IF event.object.mode = "subscription"
  THEN { o \in SubsByStatus \cup SubsByIdAndTime \cup SubsOfStrangers :
           o.id = event.object.subscription }
  ELSE {NoObject}

\* one event of each handled type, for the requests that fail on the way
ProbeEvents ==
  { Event("payment_intent.succeeded", PaymentIntent("pi_1", "cus_1", PriceContentPack)),
    Event("customer.subscription.updated",
          Subscription("sub_1", "cus_1", "active", <<PriceProAnnual>>, 1700000000, NoTime)),
    Event("customer.subscription.deleted",
          Subscription("sub_1", "cus_1", "canceled", <<PriceProAnnual>>, 1700000000, NoTime)),
    Event("invoice.paid", Invoice("sub_1")),
    Event("checkout.session.completed", Session("payment", "cus_1", "pi_1", Null, PriceContentPack)),
    Event("customer.updated", NoObject) }

ProbeRetrieved(event) ==
  IF event.type = "invoice.paid"
  THEN {Subscription("sub_1", "cus_1", "active", <<PriceProMonthly>>, 1700000000, NoTime)}
  ELSE IF event.type = "checkout.session.completed"
  THEN {PaymentIntent("pi_1", "cus_1", PriceContentPack)}
  ELSE {NoObject}

VARIABLES
  profiles,        \* the profiles table: user id -> row
  last,            \* the webhook request being answered, with its response
  oneTimeGranted,  \* history: flags of the prices whose
                   \* payment_intent.succeeded was processed for cus_1
  subscribed,      \* history: status and price ids of the subscription of
                   \* cus_1 as the last processed event reported it
  hooks,           \* overlapping webhook invocations: for each, the event,
                   \* the await it stands at, the flags it has read and
                   \* its response status
  acts,            \* invocations of the billing actions: for each, the
                   \* action, its caller and argument, the await it stands
                   \* at, its locals and its result
  stripe,          \* the provider account: customers, payment intents,
                   \* subscriptions, checkout and portal sessions
  pending          \* events the provider has emitted and not yet had
                   \* acknowledged

vars == <<profiles, last, oneTimeGranted, subscribed, hooks, acts, stripe, pending>>

\* the variables of the billing actions and of the provider
appVars == <<acts, stripe, pending>>

\* billing action invocations the model follows
MaxActs == 2
ActIds == 1..MaxActs

NoRow ==
  [stripe_customer_id |-> Null, stripe_subscription_id |-> Null,
   stripe_subscription_status |-> Null, stripe_price_id |-> Null]

NewAct ==
  [pc |-> "new", action |-> Null, user |-> Null, priceId |-> Null,
   customerId |-> Null, row |-> NoRow, amount |-> 0, result |-> Null,
   reads |-> 0, writes |-> 0, calls |-> 0]

EmptyAccount ==
  [customers |-> <<>>, paymentIntents |-> <<>>, subscriptions |-> <<>>,
   sessions |-> <<>>]

\* the variables of the one-request-at-a-time receiver
hookVars == <<last, oneTimeGranted, subscribed>>

\* overlapping webhook invocations the model follows
MaxHooks == 2
HookIds == 1..MaxHooks

NewHook ==
  [pc |-> "new", event |-> Event(Null, NoObject), object |-> NoObject,
   kind |-> Null, currentFlags |-> <<>>, status |-> 0]

NoRequest ==
  [signature |-> Null, event |-> Event(Null, NoObject), retrieved |-> NoObject,
   status |-> 0, dispatched |-> FALSE, threw |-> FALSE, reads |-> 0,
   writes |-> 0, calls |-> 0, redeliveryOf |-> 0, before |-> <<>>]

NoSubscription == [status |-> Null, prices |-> {}]

HookInit ==
  /\ profiles = [u \in Users |-> NewProfile(IF u = "u1" THEN "cus_1" ELSE Null)]
  /\ last = NoRequest
  /\ oneTimeGranted = {}
  /\ subscribed = NoSubscription
  /\ hooks = [h \in HookIds |-> NewHook]
  /\ acts = [a \in ActIds |-> NewAct]
  /\ stripe = EmptyAccount
  /\ pending = {}

\* the flags of the catalog plans sold at one of the prices
PlanFlags(prices) ==
  UNION { Elems(billingPlans[i].flags) :
            i \in { j \in 1..Len(billingPlans) : billingPlans[j].priceId \in prices } }

\* the payment intent or subscription a processed event is about
Carried(event, retrieved) ==
  IF event.type \in {"invoice.paid", "checkout.session.completed"}
  THEN retrieved ELSE event.object

CarriesPaymentIntent(event) ==
  \/ event.type = "payment_intent.succeeded"
  \/ event.type = "checkout.session.completed" /\ event.object.mode = "payment"

CarriesSubscription(event) ==
  \/ event.type \in SubscriptionEventTypes
  \/ event.type = "invoice.paid" /\ event.object.subscription /= Null
  \/ event.type = "checkout.session.completed" /\ event.object.mode = "subscription"

\* the history after a request was answered with status
Granted(event, retrieved, status) ==
  LET o == Carried(event, retrieved)
  IN IF status = 200 /\ CarriesPaymentIntent(event) /\ o.customer = "cus_1"
        /\ o.price_id /= Null
     THEN oneTimeGranted \cup PlanFlags({o.price_id})
     ELSE oneTimeGranted

Subscribed(event, retrieved, status) ==
  LET o == Carried(event, retrieved)
  IN IF status = 200 /\ CarriesSubscription(event) /\ o.customer = "cus_1"
     THEN IF event.type = "customer.subscription.deleted"
          THEN [status |-> "deleted", prices |-> {}]
          ELSE [status |-> o.status, prices |-> Elems(o.items) \ {Null}]
     ELSE subscribed

\* one webhook request, from the request to the response
Request(signature, event, retrieved, fail, firstStatus) ==
  \E r \in {POST(profiles, signature, event, retrieved, fail)} :
     /\ profiles' = r.out.profiles
     /\ last' = [signature |-> signature, event |-> event, retrieved |-> retrieved,
                 status |-> r.status, dispatched |-> r.dispatched,
                 threw |-> r.out.threw,
                 reads |-> r.out.reads, writes |-> r.out.writes,
                 calls |-> r.out.calls, redeliveryOf |-> firstStatus,
                 before |-> profiles]
     /\ UNCHANGED <<hooks, acts, stripe>>

\* a request and the history of what customer cus_1 bought
Deliver(signature, event, retrieved, fail, firstStatus) ==
  LET r == POST(profiles, signature, event, retrieved, fail)
  IN /\ Request(signature, event, retrieved, fail, firstStatus)
     /\ oneTimeGranted' = Granted(event, retrieved, r.status)
     /\ subscribed' = Subscribed(event, retrieved, r.status)

\* a verified request whose calls all succeed
DeliverDirect ==
  /\ last = NoRequest
  /\ \E event \in DirectEvents : Deliver("valid", event, NoObject, "none", 0)
  /\ UNCHANGED pending

DeliverRetrieving ==
  /\ last = NoRequest
  /\ \E event \in RetrievingEvents : \E retrieved \in Retrievable(event) :
       Deliver("valid", event, retrieved, "none", 0)
  /\ UNCHANGED pending

\* a verified request one of whose calls fails
DeliverFailing ==
  /\ last = NoRequest
  /\ \E event \in ProbeEvents : \E retrieved \in ProbeRetrieved(event) :
       \E fail \in FailModes \ {"none"} :
         Deliver("valid", event, retrieved, fail, 0)
  /\ UNCHANGED pending

\* a request without a signature header or with one that does not verify
DeliverUnverified ==
  /\ last = NoRequest
  /\ \E signature \in {"missing", "bad"} : \E event \in ProbeEvents :
       \E retrieved \in ProbeRetrieved(event) :
         Deliver(signature, event, retrieved, "none", 0)
  /\ UNCHANGED pending

\* the provider delivers the event it has just delivered once more
Redeliver ==
  /\ last /= NoRequest
  /\ last.redeliveryOf = 0
  /\ Deliver(last.signature, last.event, last.retrieved, "none", last.status)
  /\ UNCHANGED pending

\* the response leaves; the next request can come
Respond ==
  /\ last /= NoRequest
  /\ last' = NoRequest
  /\ UNCHANGED <<profiles, oneTimeGranted, subscribed, hooks, appVars>>

HookNext ==
  \/ DeliverDirect
  \/ DeliverRetrieving
  \/ DeliverFailing
  \/ DeliverUnverified
  \/ Redeliver
  \/ Respond

HookSpec == HookInit /\ [][HookNext]_vars

(***************************************************************************)
(* Properties of the webhook reconciler, one request at a time             *)
(***************************************************************************)
Row == profiles["u1"]
RowBefore == last.before["u1"]
FlagSet(row) == Elems(row.feature_flags)
Answered(types) == last.status = 200 /\ last.event.type \in types
RecurringFlags == {"pro_content", "download_access", "priority_support"}
ActiveStatuses == {"active", "trialing"}

\* C2: after any sequence of events processed one at a time, the stored
\* flags are the flags of the prices whose payment_intent.succeeded was
\* processed (one-time or not, so that no payment is held against the
\* claim), united with the flags of the plan of the subscription when its
\* last reported status is active or trialing, and with nothing for any
\* other status or after a deletion.
C2_FlagsAreOneTimePlusActivePlan ==
  FlagSet(Row) =
    oneTimeGranted \cup
      (IF subscribed.status \in ActiveStatuses THEN PlanFlags(subscribed.prices) ELSE {})

\* C3: a payment_intent.succeeded, customer.subscription.created/updated or
\* customer.subscription.deleted event processed a second time right after
\* it was processed leaves every row exactly as the first processing left it.
C3_SecondDeliveryChangesNothing ==
  ( /\ last.redeliveryOf = 200
    /\ Answered({"payment_intent.succeeded"} \cup SubscriptionEventTypes) )
  => profiles = last.before

C3_Witness ==
  /\ last.redeliveryOf = 200
  /\ Answered({"customer.subscription.updated"})
  /\ last.writes = 1
  /\ "content_pack" \in FlagSet(Row)
  /\ "priority_support" \in FlagSet(Row)

\* C4: a processed customer.subscription.deleted removes pro_content,
\* download_access and priority_support from the stored flags, keeps every
\* other stored flag, and stores the event's subscription id, status and
\* period end.
C4_DeletedStripsOnlyRecurringFlags ==
  ( Answered({"customer.subscription.deleted"}) /\ last.writes = 1 )
  => /\ FlagSet(Row) = FlagSet(RowBefore) \ RecurringFlags
     /\ Len(Row.feature_flags) = Cardinality(FlagSet(Row))
     /\ Row.stripe_subscription_id = last.event.object.id
     /\ Row.stripe_subscription_status = last.event.object.status
     /\ Row.stripe_current_period_end =
          (IF last.event.object.current_period_end = 0 THEN Null
           ELSE IsoString(last.event.object.current_period_end))

C4_Witness ==
  /\ Answered({"customer.subscription.deleted"})
  /\ FlagSet(RowBefore) = {"content_pack", "pro_content", "download_access"}
  /\ Row.feature_flags = <<"content_pack">>
  /\ Row.stripe_subscription_status = "canceled"

\* C5: a processed customer.subscription.created or updated stores the flags
\* (stored flags minus the recurring plans' flags) united with the flags of
\* the catalog plans of the subscription's prices, and stores subscription
\* id, status, the first price id of the items, period end and trial end.
C5_UpdateReplacesSubscriptionFlags ==
  ( /\ Answered({"customer.subscription.created", "customer.subscription.updated"})
    /\ last.writes = 1 )
  => LET sub == last.event.object
         prices == { i \in 1..Len(sub.items) : sub.items[i] /= Null }
     IN /\ FlagSet(Row) =
             (FlagSet(RowBefore) \ RecurringFlags) \cup PlanFlags(Elems(sub.items))
        /\ Len(Row.feature_flags) = Cardinality(FlagSet(Row))
        /\ Row.stripe_subscription_id = sub.id
        /\ Row.stripe_subscription_status = sub.status
        /\ Row.stripe_price_id =
             (IF prices = {} THEN Null
              ELSE sub.items[CHOOSE i \in prices : \A j \in prices : i <= j])
        /\ Row.stripe_current_period_end =
             (IF sub.current_period_end = 0 THEN Null
              ELSE IsoString(sub.current_period_end))
        /\ Row.stripe_trial_end =
             (IF sub.trial_end \in {NoTime, 0} THEN Null
              ELSE IsoString(sub.trial_end))

\* the annual plan's flags are stored and the event moves to the monthly price
C5_Witness ==
  /\ Answered({"customer.subscription.updated"})
  /\ last.writes = 1
  /\ "priority_support" \in FlagSet(RowBefore)
  /\ "content_pack" \in FlagSet(RowBefore)
  /\ last.event.object.items = <<PriceProMonthly>>
  /\ FlagSet(Row) = {"content_pack", "pro_content", "download_access"}

\* C6: a processed payment_intent.succeeded with a customer and a price_id
\* stores the previous flags united with the catalog flags of the price and
\* writes no other column.
C6_PaymentIntentOnlyAddsFlags ==
  ( /\ Answered({"payment_intent.succeeded"})
    /\ last.event.object.customer /= Null
    /\ last.event.object.price_id /= Null )
  => /\ FlagSet(Row) = FlagSet(RowBefore) \cup PlanFlags({last.event.object.price_id})
     /\ Len(Row.feature_flags) = Cardinality(FlagSet(Row))
     /\ SubSeq(Row.feature_flags, 1, Len(RowBefore.feature_flags)) = RowBefore.feature_flags
     /\ \A c \in DOMAIN Row \ {"feature_flags"} : Row[c] = RowBefore[c]
     /\ profiles["u2"] = last.before["u2"]

C6_Witness ==
  /\ Answered({"payment_intent.succeeded"})
  /\ last.event.object.price_id = PriceContentPack
  /\ RowBefore.feature_flags = <<"pro_content", "download_access">>
  /\ RowBefore.stripe_subscription_status = "active"
  /\ Row.feature_flags = <<"pro_content", "download_access", "content_pack">>

\* C7: a request whose signature header is missing or does not verify is
\* answered 400 without dispatching to a handler, reading or writing a
\* profile or calling the provider; a handler is dispatched only for a
\* verified signature.
C7_UnverifiedRequestIsRejected ==
  /\ last.signature \in {"missing", "bad"} =>
       /\ last.status = 400
       /\ ~last.dispatched
       /\ last.reads = 0 /\ last.writes = 0 /\ last.calls = 0
       /\ profiles = last.before
  /\ last.dispatched => last.signature = "valid"

C7_Witness ==
  /\ last.signature = "bad"
  /\ last.status = 400
  /\ last.event.type = "payment_intent.succeeded"
  /\ last.event.object.price_id = PriceContentPack
  /\ "content_pack" \notin FlagSet(Row)

(***************************************************************************)
(* Overlapping webhook invocations: every await of a handler is a step     *)
(***************************************************************************)
ActiveSub(priceId) ==
  Subscription("sub_1", "cus_1", "active", <<priceId>>, 1700000000, NoTime)

OverlapEvents ==
  { Event("payment_intent.succeeded", PaymentIntent("pi_1", "cus_1", PriceContentPack)),
    Event("payment_intent.succeeded", PaymentIntent("pi_1", "cus_1", Null)),
    Event("customer.subscription.created", ActiveSub(PriceProMonthly)),
    Event("customer.subscription.updated", ActiveSub(PriceProAnnual)),
    Event("customer.subscription.deleted",
          Subscription("sub_1", "cus_1", "canceled", <<PriceProAnnual>>, 1700000000, NoTime)),
    Event("invoice.paid", Invoice("sub_1")),
    Event("invoice.paid", Invoice(Null)) }

OverlapRetrievable == { ActiveSub(PriceProMonthly), ActiveSub(PriceProAnnual) }

\* the await a verified event's handler first stands at
FirstAwait(event) ==
  CASE event.type = "payment_intent.succeeded" ->
         IF event.object.price_id = Null \/ event.object.customer = Null
         THEN "done" ELSE "read"
    [] event.type \in SubscriptionEventTypes ->
         IF event.object.customer = Null THEN "done" ELSE "read"
    [] event.type = "invoice.paid" ->
         IF event.object.subscription = Null THEN "done" ELSE "retrieve"
    [] OTHER -> "done"

KindOf(event) ==
  CASE event.type = "payment_intent.succeeded" -> "payment_intent"
    [] event.type = "customer.subscription.deleted" -> "deleted"
    [] OTHER -> "subscription"

\* POST up to the handler's first await; invocations arrive in slot order
Receive(h) ==
  /\ hooks[h].pc = "new"
  /\ \A g \in HookIds : g < h => hooks[g].pc /= "new"
  /\ \E event \in OverlapEvents :
       hooks' = [hooks EXCEPT ![h] =
                   [pc |-> FirstAwait(event), event |-> event,
                    object |-> event.object, kind |-> KindOf(event),
                    currentFlags |-> <<>>,
                    status |-> IF FirstAwait(event) = "done" THEN 200 ELSE 0]]
  /\ UNCHANGED <<profiles, hookVars, appVars>>

\* await stripe.subscriptions.retrieve(...) in handleInvoicePaid
Retrieve(h) ==
  /\ hooks[h].pc = "retrieve"
  /\ \/ \E subscription \in OverlapRetrievable :
          hooks' = [hooks EXCEPT ![h].pc = "read", ![h].object = subscription]
     \/ hooks' = [hooks EXCEPT ![h].pc = "done", ![h].status = 500]
  /\ UNCHANGED <<profiles, hookVars, appVars>>

\* await getProfileFlagsForCustomer(...)
ReadFlags(h) ==
  /\ hooks[h].pc = "read"
  /\ \E fail \in {"none", "read"} :
       LET rd == getProfileFlagsForCustomer(profiles, hooks[h].object.customer, fail)
       IN hooks' = IF rd.threw
                   THEN [hooks EXCEPT ![h].pc = "done", ![h].status = 500]
                   ELSE [hooks EXCEPT ![h].pc = "write", ![h].currentFlags = rd.flags]
  /\ UNCHANGED <<profiles, hookVars, appVars>>

\* await updateProfileForCustomer(...) and the response
WriteProfile(h) ==
  /\ hooks[h].pc = "write"
  /\ LET o == hooks[h].object
         updates ==
           CASE hooks[h].kind = "payment_intent" -> PaymentIntentUpdates(o, hooks[h].currentFlags)
             [] hooks[h].kind = "subscription" -> SubscriptionUpdates(o, hooks[h].currentFlags)
             [] OTHER -> SubscriptionDeletedUpdates(o, hooks[h].currentFlags)
     IN \/ /\ profiles' = updateProfileForCustomer(profiles, o.customer, updates)
           /\ hooks' = [hooks EXCEPT ![h].pc = "done", ![h].status = 200]
        \/ /\ hooks' = [hooks EXCEPT ![h].pc = "done", ![h].status = 500]
           /\ UNCHANGED profiles
  /\ UNCHANGED <<hookVars, appVars>>

OverlapNext ==
  \E h \in HookIds : Receive(h) \/ Retrieve(h) \/ ReadFlags(h) \/ WriteProfile(h)

OverlapSpec == HookInit /\ [][OverlapNext]_vars

Quiet == \A h \in HookIds : hooks[h].pc \in {"new", "done"}

\* C1: once every invocation has finished, the flags written by each
\* completed payment_intent.succeeded invocation for a one-time price are in
\* the stored flags, however the reads and writes of the invocations for the
\* customer interleaved.
C1_OneTimeFlagsSurviveOverlap ==
  Quiet =>
    \A h \in HookIds :
      ( /\ hooks[h].status = 200
        /\ hooks[h].kind = "payment_intent"
        /\ hooks[h].pc = "done"
        /\ hooks[h].object.price_id = PriceContentPack )
      => "content_pack" \in FlagSet(Row)

(***************************************************************************)
(* Billing actions (billing/actions.ts): every await is a step             *)
(***************************************************************************)
ActionNames ==
  {"createCheckoutSession", "createPaymentIntent", "createSubscription",
   "getBillingProfile", "cancelSubscription", "createCustomerPortalSession",
   "updateSubscription"}

\* supabase.auth.getUser() yields a user, or an error or no user (Null)
Callers == {"u1", Null}

NotAuthenticated == "Not authenticated."
InvalidPrice == "Invalid price selection."
InvalidPlan == "Invalid plan selection. Only subscription plans are supported."
NoSubscriptionFound == "No active subscription found."
InactiveSubscription == "Cannot change plans for inactive subscriptions."
AlreadyOnPlan == "You are already on this plan."
NoCustomerFound == "No Stripe customer found. Please make a purchase first."
PriceConfigurationError == "Price configuration error."
PaymentNotInitialized == "Subscription payment could not be initialized."
SubscriptionConfigurationError == "Subscription configuration error."
\* error.message of a failed datastore or provider call
DatastoreError == "datastore error"
ProviderError == "provider error"
\* the action threw instead of returning
Thrown == "throw"
Returned == "ok"

Running(pc) == [pc |-> pc, result |-> Null]
Finished(result) == [pc |-> "done", result |-> result]

\* the validation with createPaymentIntent and createSubscription testing
\* only that the price is in the catalog
BeginAuthenticatedAnyInterval(action, priceId) ==
  LET plan == getPlanByPriceId(priceId)
  IN CASE action \in {"createCheckoutSession", "createPaymentIntent",
                      "createSubscription"} ->
            IF plan.id = Null THEN Finished(InvalidPrice)
            ELSE Running("ensure_read")
       [] action = "updateSubscription" ->
            IF plan.id = Null \/ plan.interval = "one_time"
            THEN Finished(InvalidPlan) ELSE Running("profile_read")
       [] OTHER -> Running("profile_read")

\* the validation of the arguments that follows the session check
BeginAuthenticated(action, priceId) ==
  LET plan == getPlanByPriceId(priceId)
  IN CASE action = "createCheckoutSession" ->
            IF plan.id = Null THEN Finished(InvalidPrice)
            ELSE Running("ensure_read")
       [] action = "createPaymentIntent" ->
            IF plan.id = Null \/ plan.interval /= "one_time"
            THEN Finished(InvalidPrice) ELSE Running("ensure_read")
       [] action = "createSubscription" ->
            IF plan.id = Null \/ plan.interval = "one_time"
            THEN Finished(InvalidPrice) ELSE Running("ensure_read")
       [] action = "updateSubscription" ->
            IF plan.id = Null \/ plan.interval = "one_time"
            THEN Finished(InvalidPlan) ELSE Running("profile_read")
       [] OTHER -> Running("profile_read")

\* getBillingProfile selecting the profile without the session check
BeginWithoutSessionCheck(action, user, priceId) ==
  IF user = Null /\ action /= "getBillingProfile" THEN Finished(NotAuthenticated)
  ELSE BeginAuthenticated(action, priceId)

\* an action from its call to its first datastore or provider await:
\* the session check, then the validation
Begin(action, user, priceId) ==
  IF user = Null THEN Finished(NotAuthenticated)
  ELSE BeginAuthenticated(action, priceId)

\* the await that follows ensureStripeCustomer
AfterEnsure(action) ==
  CASE action = "createCheckoutSession" -> "session_create"
    [] action = "createPaymentIntent" -> "price_retrieve"
    [] OTHER -> "subscription_create"

\* the dispatch on the selected row with updateSubscription not testing the
\* stored subscription status
AfterProfileReadAnyStatus(action, row, priceId) ==
  CASE action = "getBillingProfile" -> Finished(Returned)
    [] action = "cancelSubscription" ->
         IF row.stripe_subscription_id = Null THEN Finished(NoSubscriptionFound)
         ELSE Running("subscription_cancel")
    [] action = "createCustomerPortalSession" ->
         IF row.stripe_customer_id = Null THEN Finished(NoCustomerFound)
         ELSE Running("portal_create")
    [] OTHER ->
         IF row.stripe_subscription_id = Null THEN Finished(NoSubscriptionFound)
         ELSE IF row.stripe_price_id = priceId THEN Finished(AlreadyOnPlan)
         ELSE Running("subscription_retrieve")

\* the dispatch on the selected row with createCustomerPortalSession asking
\* for a portal session whether or not the row stores a customer
AfterProfileReadPortalForAnyone(action, row, priceId) ==
  CASE action = "getBillingProfile" -> Finished(Returned)
    [] action = "cancelSubscription" ->
         IF row.stripe_subscription_id = Null THEN Finished(NoSubscriptionFound)
         ELSE Running("subscription_cancel")
    [] action = "createCustomerPortalSession" -> Running("portal_create")
    [] OTHER ->
         IF row.stripe_subscription_id = Null THEN Finished(NoSubscriptionFound)
         ELSE IF row.stripe_subscription_status \notin {"active", "trialing"}
         THEN Finished(InactiveSubscription)
         ELSE IF row.stripe_price_id = priceId THEN Finished(AlreadyOnPlan)
         ELSE Running("subscription_retrieve")

\* what an action does with the profile row it has selected
AfterProfileRead(action, row, priceId) ==
  CASE action = "getBillingProfile" -> Finished(Returned)
    [] action = "cancelSubscription" ->
         IF row.stripe_subscription_id = Null THEN Finished(NoSubscriptionFound)
         ELSE Running("subscription_cancel")
    [] action = "createCustomerPortalSession" ->
         IF row.stripe_customer_id = Null THEN Finished(NoCustomerFound)
         ELSE Running("portal_create")
    [] OTHER ->
         IF row.stripe_subscription_id = Null THEN Finished(NoSubscriptionFound)
         ELSE IF row.stripe_subscription_status \notin {"active", "trialing"}
         THEN Finished(InactiveSubscription)
         ELSE IF row.stripe_price_id = priceId THEN Finished(AlreadyOnPlan)
         ELSE Running("subscription_retrieve")

\* the act a moved on, with the counters of its datastore and provider calls
Step(a, next, reads, writes, calls) ==
  [acts EXCEPT ![a].pc = next.pc, ![a].result = next.result,
               ![a].reads = @ + reads, ![a].writes = @ + writes,
               ![a].calls = @ + calls]

At(a, pc) == acts[a].pc = pc

\* the actions that take a priceId or a newPriceId, and those without argument
ActionsWithPrice ==
  {"createCheckoutSession", "createPaymentIntent", "createSubscription",
   "updateSubscription"}

\* the calls made: each action with every price by the signed-in user, and
\* each action without a session
Calls ==
  (ActionsWithPrice \X {"u1"} \X PriceIds)
  \cup ((ActionNames \ ActionsWithPrice) \X {"u1"} \X {Null})
  \cup ((ActionNames \ ActionsWithPrice) \X {Null} \X {Null})
  \cup (ActionsWithPrice \X {Null} \X {PriceContentPack, PriceProAnnual})

\* a caller invokes an action; acts are numbered as they are invoked
Invoke(a) ==
  /\ At(a, "new")
  /\ \A b \in ActIds : b < a => acts[b].pc = "returned"
  /\ \E call \in Calls :
       LET next == Begin(call[1], call[2], call[3])
       IN acts' = [acts EXCEPT ![a] =
                     [NewAct EXCEPT !.pc = next.pc, !.result = next.result,
                                    !.action = call[1], !.user = call[2],
                                    !.priceId = call[3]]]
  /\ UNCHANGED <<profiles, hookVars, hooks, stripe, pending>>

\* ensureStripeCustomer: select stripe_customer_id of the user's row
EnsureRead(a) ==
  /\ At(a, "ensure_read")
  /\ \/ acts' = Step(a, Finished(Thrown), 1, 0, 0)
     \/ LET id == profiles[acts[a].user].stripe_customer_id
        IN acts' = IF id /= Null
                   THEN [Step(a, Running(AfterEnsure(acts[a].action)), 1, 0, 0)
                           EXCEPT ![a].customerId = id]
                   ELSE Step(a, Running("ensure_create"), 1, 0, 0)
  /\ UNCHANGED <<profiles, hookVars, hooks, stripe, pending>>

CustomerId(n) == "cus_" \o ToString(n)
PaymentIntentId(n) == "pi_" \o ToString(n)
SubscriptionId(n) == "sub_" \o ToString(n)
SessionId(n) == "cs_" \o ToString(n)

\* ensureStripeCustomer: stripe.customers.create
EnsureCreate(a) ==
  /\ At(a, "ensure_create")
  /\ \/ /\ acts' = Step(a, Finished(Thrown), 0, 0, 1)
        /\ UNCHANGED stripe
     \/ LET id == CustomerId(Len(stripe.customers) + 1)
        IN /\ stripe' = [stripe EXCEPT !.customers =
                           Append(@, [id |-> id, supabase_user_id |-> acts[a].user])]
           /\ acts' = [Step(a, Running("ensure_write"), 0, 0, 1)
                         EXCEPT ![a].customerId = id]
  /\ UNCHANGED <<profiles, hookVars, hooks, pending>>

\* ensureStripeCustomer: update stripe_customer_id of the user's row
EnsureWrite(a) ==
  /\ At(a, "ensure_write")
  /\ \/ /\ acts' = Step(a, Finished(Thrown), 0, 1, 0)
        /\ UNCHANGED profiles
     \/ /\ profiles' = [profiles EXCEPT ![acts[a].user].stripe_customer_id =
                                          acts[a].customerId]
        /\ acts' = Step(a, Running(AfterEnsure(acts[a].action)), 0, 1, 0)
  /\ UNCHANGED <<hookVars, hooks, stripe, pending>>

\* createCheckoutSession: stripe.checkout.sessions.create inside try/catch
SessionCreate(a) ==
  /\ At(a, "session_create")
  /\ \/ /\ acts' = Step(a, Finished(ProviderError), 0, 0, 1)
        /\ UNCHANGED stripe
     \/ LET plan == getPlanByPriceId(acts[a].priceId)
            session ==
              [id |-> SessionId(Len(stripe.sessions) + 1),
               mode |-> IF plan.interval = "one_time" THEN "payment" ELSE "subscription",
               customer |-> acts[a].customerId,
               price |-> acts[a].priceId,
               price_id |-> acts[a].priceId,
               payment_intent |-> Null,
               subscription |-> Null,
               paid |-> FALSE]
        IN /\ stripe' = [stripe EXCEPT !.sessions = Append(@, session)]
           /\ acts' = Step(a, Finished(Returned), 0, 0, 1)
  /\ UNCHANGED <<profiles, hookVars, hooks, pending>>

\* the price objects stripe.prices.retrieve can return for a one-time plan
StripePrices(plan) ==
  { [unit_amount |-> n, currency |-> c, type |-> t] :
      n \in {0, plan.amount, plan.amount + 500}, c \in {"gbp", "usd"},
      t \in {"one_time", "recurring"} }

\* createPaymentIntent: stripe.prices.retrieve and the checks on the price
PriceRetrieve(a) ==
  /\ At(a, "price_retrieve")
  /\ \/ acts' = Step(a, Finished(Thrown), 0, 0, 1)
     \/ \E stripePrice \in StripePrices(getPlanByPriceId(acts[a].priceId)) :
          acts' =
            IF \/ stripePrice.unit_amount = 0
               \/ stripePrice.currency /= getPlanByPriceId(acts[a].priceId).currency
               \/ stripePrice.type /= "one_time"
            THEN Step(a, Finished(PriceConfigurationError), 0, 0, 1)
            ELSE [Step(a, Running("payment_intent_create"), 0, 0, 1)
                    EXCEPT ![a].amount = stripePrice.unit_amount]
  /\ UNCHANGED <<profiles, hookVars, hooks, stripe, pending>>

\* createPaymentIntent: stripe.paymentIntents.create
PaymentIntentCreate(a) ==
  /\ At(a, "payment_intent_create")
  /\ \/ /\ acts' = Step(a, Finished(Thrown), 0, 0, 1)
        /\ UNCHANGED stripe
     \/ LET paymentIntent ==
              [id |-> PaymentIntentId(Len(stripe.paymentIntents) + 1),
               customer |-> acts[a].customerId,
               price_id |-> acts[a].priceId,
               amount |-> acts[a].amount,
               succeeded |-> FALSE]
        IN /\ stripe' = [stripe EXCEPT !.paymentIntents = Append(@, paymentIntent)]
           /\ acts' = Step(a, Finished(Returned), 0, 0, 1)
  /\ UNCHANGED <<profiles, hookVars, hooks, pending>>

\* the webhook's view of a subscription of the account
SubscriptionObject(sub) ==
  Subscription(sub.id, sub.customer, sub.status, sub.items,
               sub.current_period_end, sub.trial_end)

\* createSubscription: stripe.subscriptions.create with payment_behavior
\* default_incomplete, then the checks on latest_invoice.payment_intent;
\* the provider emits customer.subscription.created
SubscriptionCreate(a) ==
  /\ At(a, "subscription_create")
  /\ \/ /\ acts' = Step(a, Finished(Thrown), 0, 0, 1)
        /\ UNCHANGED <<stripe, pending>>
     \/ \E result \in {Returned, PaymentNotInitialized} :
          LET sub ==
                [id |-> SubscriptionId(Len(stripe.subscriptions) + 1),
                 customer |-> acts[a].customerId,
                 status |-> "incomplete",
                 items |-> <<acts[a].priceId>>,
                 current_period_end |-> 1700000000,
                 trial_end |-> NoTime,
                 cancel_at_period_end |-> FALSE]
          IN /\ stripe' = [stripe EXCEPT !.subscriptions = Append(@, sub)]
             /\ pending' = pending \cup
                  {Event("customer.subscription.created", SubscriptionObject(sub))}
             /\ acts' = Step(a, Finished(result), 0, 0, 1)
  /\ UNCHANGED <<profiles, hookVars, hooks>>

\* the columns an action selects of its caller's row
SelectedRow(user) ==
  [c \in DOMAIN NoRow |-> profiles[user][c]]

\* getBillingProfile, cancelSubscription, createCustomerPortalSession and
\* updateSubscription: select the caller's row; an error is returned
ProfileRead(a) ==
  /\ At(a, "profile_read")
  /\ \/ acts' = Step(a, Finished(DatastoreError), 1, 0, 0)
     \/ LET row == SelectedRow(acts[a].user)
        IN acts' = [Step(a, AfterProfileRead(acts[a].action, row, acts[a].priceId), 1, 0, 0)
                      EXCEPT ![a].row = row]
  /\ UNCHANGED <<profiles, hookVars, hooks, stripe, pending>>

\* the position of a subscription in the account, 0 when it has none
SubscriptionIndex(id) ==
  LET hits == { i \in 1..Len(stripe.subscriptions) : stripe.subscriptions[i].id = id }
  IN IF hits = {} THEN 0 ELSE CHOOSE i \in hits : TRUE

\* cancelSubscription cancelling at once: stripe.subscriptions.cancel(id);
\* the provider emits customer.subscription.deleted
SubscriptionCancelNow(a) ==
  /\ At(a, "subscription_cancel")
  /\ LET i == SubscriptionIndex(acts[a].row.stripe_subscription_id)
     IN \/ /\ acts' = Step(a, Finished(ProviderError), 0, 0, 1)
           /\ UNCHANGED <<stripe, pending>>
        \/ /\ i /= 0
           /\ stripe' = [stripe EXCEPT !.subscriptions[i].status = "canceled"]
           /\ pending' = pending \cup
                {Event("customer.subscription.deleted",
                       SubscriptionObject([stripe.subscriptions[i]
                                             EXCEPT !.status = "canceled"]))}
           /\ acts' = Step(a, Finished(Returned), 0, 0, 1)
  /\ UNCHANGED <<profiles, hookVars, hooks>>

\* cancelSubscription: stripe.subscriptions.update(id, {cancel_at_period_end})
\* inside try/catch; the provider emits customer.subscription.updated
SubscriptionCancel(a) ==
  /\ At(a, "subscription_cancel")
  /\ LET i == SubscriptionIndex(acts[a].row.stripe_subscription_id)
     IN \/ /\ acts' = Step(a, Finished(ProviderError), 0, 0, 1)
           /\ UNCHANGED <<stripe, pending>>
        \/ /\ i /= 0
           /\ stripe' = [stripe EXCEPT !.subscriptions[i].cancel_at_period_end = TRUE]
           /\ pending' = pending \cup
                {Event("customer.subscription.updated",
                       SubscriptionObject(stripe.subscriptions[i]))}
           /\ acts' = Step(a, Finished(Returned), 0, 0, 1)
  /\ UNCHANGED <<profiles, hookVars, hooks>>

\* createCustomerPortalSession: stripe.billingPortal.sessions.create inside
\* try/catch
PortalCreate(a) ==
  /\ At(a, "portal_create")
  /\ \/ acts' = Step(a, Finished(ProviderError), 0, 0, 1)
     \/ acts' = Step(a, Finished(Returned), 0, 0, 1)
  /\ UNCHANGED <<profiles, hookVars, hooks, stripe, pending>>

\* updateSubscription: stripe.subscriptions.retrieve inside try/catch
SubscriptionRetrieve(a) ==
  /\ At(a, "subscription_retrieve")
  /\ LET i == SubscriptionIndex(acts[a].row.stripe_subscription_id)
     IN acts' \in
          {Step(a, Finished(ProviderError), 0, 0, 1)} \cup
          (IF i = 0 THEN {}
           ELSE IF stripe.subscriptions[i].items = <<>>
           THEN {Step(a, Finished(SubscriptionConfigurationError), 0, 0, 1)}
           ELSE {Step(a, Running("subscription_update"), 0, 0, 1)})
  /\ UNCHANGED <<profiles, hookVars, hooks, stripe, pending>>

\* updateSubscription: stripe.subscriptions.update(id, {items: [{id, price}]})
\* inside try/catch; the provider emits customer.subscription.updated
SubscriptionUpdate(a) ==
  /\ At(a, "subscription_update")
  /\ LET i == SubscriptionIndex(acts[a].row.stripe_subscription_id)
         items == <<acts[a].priceId>> \o Tail(stripe.subscriptions[i].items)
     IN \/ /\ acts' = Step(a, Finished(ProviderError), 0, 0, 1)
           /\ UNCHANGED <<stripe, pending>>
        \/ /\ stripe' = [stripe EXCEPT !.subscriptions[i].items = items]
           /\ pending' = pending \cup
                {Event("customer.subscription.updated",
                       SubscriptionObject([stripe.subscriptions[i] EXCEPT !.items = items]))}
           /\ acts' = Step(a, Finished(Returned), 0, 0, 1)
  /\ UNCHANGED <<profiles, hookVars, hooks>>

(***************************************************************************)
(* The customer and the provider, as the README's test flows have them     *)
(***************************************************************************)
\* no call is under way
Idle == \A a \in ActIds : At(a, "new") \/ At(a, "returned")

\* the customer confirms the payment intent of createPaymentIntent in the
\* embedded form; the provider emits payment_intent.succeeded
ConfirmPayment ==
  /\ Idle
  /\ \E i \in 1..Len(stripe.paymentIntents) :
       /\ ~stripe.paymentIntents[i].succeeded
       /\ stripe' = [stripe EXCEPT !.paymentIntents[i].succeeded = TRUE]
       /\ pending' = pending \cup
            {Event("payment_intent.succeeded",
                   PaymentIntent(stripe.paymentIntents[i].id,
                                 stripe.paymentIntents[i].customer,
                                 stripe.paymentIntents[i].price_id))}
  /\ UNCHANGED <<profiles, hookVars, hooks, acts>>

\* the customer pays the first invoice of the subscription of
\* createSubscription; the provider emits customer.subscription.updated and
\* invoice.paid
PayInvoice ==
  /\ Idle
  /\ \E i \in 1..Len(stripe.subscriptions) :
       /\ stripe.subscriptions[i].status = "incomplete"
       /\ stripe' = [stripe EXCEPT !.subscriptions[i].status = "active"]
       /\ pending' = pending \cup
            {Event("customer.subscription.updated",
                   SubscriptionObject([stripe.subscriptions[i] EXCEPT !.status = "active"])),
             Event("invoice.paid", Invoice(stripe.subscriptions[i].id))}
  /\ UNCHANGED <<profiles, hookVars, hooks, acts>>

\* the customer pays on the hosted page of a session of
\* createCheckoutSession, which passes metadata for the session and none for
\* the payment intent or the subscription the provider creates; the provider
\* emits checkout.session.completed beside the object's own event
CompleteCheckout ==
  /\ Idle
  /\ \E i \in 1..Len(stripe.sessions) :
       LET session == stripe.sessions[i]
           paymentIntent ==
             [id |-> PaymentIntentId(Len(stripe.paymentIntents) + 1),
              customer |-> session.customer, price_id |-> Null,
              amount |-> getPlanByPriceId(session.price).amount,
              succeeded |-> TRUE]
           sub ==
             [id |-> SubscriptionId(Len(stripe.subscriptions) + 1),
              customer |-> session.customer, status |-> "active",
              items |-> <<session.price>>, current_period_end |-> 1700000000,
              trial_end |-> NoTime, cancel_at_period_end |-> FALSE]
       IN /\ ~session.paid
          /\ IF session.mode = "payment"
             THEN /\ stripe' = [stripe EXCEPT
                                  !.paymentIntents = Append(@, paymentIntent),
                                  !.sessions[i].paid = TRUE,
                                  !.sessions[i].payment_intent = paymentIntent.id]
                  /\ pending' = pending \cup
                       {Event("payment_intent.succeeded",
                              PaymentIntent(paymentIntent.id, session.customer, Null)),
                        Event("checkout.session.completed",
                              Session("payment", session.customer, paymentIntent.id,
                                      Null, session.price_id))}
             ELSE /\ stripe' = [stripe EXCEPT
                                  !.subscriptions = Append(@, sub),
                                  !.sessions[i].paid = TRUE,
                                  !.sessions[i].subscription = sub.id]
                  /\ pending' = pending \cup
                       {Event("customer.subscription.created", SubscriptionObject(sub)),
                        Event("checkout.session.completed",
                              Session("subscription", session.customer, Null, sub.id,
                                      session.price_id))}
  /\ UNCHANGED <<profiles, hookVars, hooks, acts>>

\* stripe.paymentIntents.retrieve / stripe.subscriptions.retrieve of the
\* webhook handlers, on the account as it is when the event is delivered
RetrievedFor(event) ==
  LET subId == IF event.type = "invoice.paid" THEN event.object.subscription
               ELSE IF event.type = "checkout.session.completed"
               THEN event.object.subscription ELSE Null
      piHits == IF event.type = "checkout.session.completed"
                THEN { i \in 1..Len(stripe.paymentIntents) :
                         stripe.paymentIntents[i].id = event.object.payment_intent }
                ELSE {}
  IN IF piHits /= {}
     THEN LET pi == stripe.paymentIntents[CHOOSE i \in piHits : TRUE]
          IN PaymentIntent(pi.id, pi.customer, pi.price_id)
     ELSE IF SubscriptionIndex(subId) /= 0
     THEN SubscriptionObject(stripe.subscriptions[SubscriptionIndex(subId)])
     ELSE NoObject

\* the provider delivers an event it has emitted and keeps it for a retry
\* unless the answer is 200
DeliverPending ==
  \E event \in pending : \E fail \in {"none", "read"} :
    /\ last = NoRequest
    /\ Request("valid", event, RetrievedFor(event), fail, 0)
    /\ UNCHANGED <<oneTimeGranted, subscribed>>
    /\ pending' =
         IF POST(profiles, "valid", event, RetrievedFor(event), fail).status = 200
         THEN pending \ {event} ELSE pending

\* the caller receives the result of the action
Return(a) ==
  /\ At(a, "done")
  /\ acts' = [acts EXCEPT ![a] = [NewAct EXCEPT !.pc = "returned"]]
  /\ UNCHANGED <<profiles, hookVars, hooks, stripe, pending>>

AppInit ==
  /\ profiles = [u \in Users |-> NewProfile(Null)]
  /\ last = NoRequest
  /\ oneTimeGranted = {}
  /\ subscribed = NoSubscription
  /\ hooks = [h \in HookIds |-> NewHook]
  /\ acts = [a \in ActIds |-> NewAct]
  /\ stripe = EmptyAccount
  /\ pending = {}

ActNext(a) ==
  \/ Invoke(a)
  \/ EnsureRead(a)
  \/ EnsureCreate(a)
  \/ EnsureWrite(a)
  \/ SessionCreate(a)
  \/ PriceRetrieve(a)
  \/ PaymentIntentCreate(a)
  \/ SubscriptionCreate(a)
  \/ ProfileRead(a)
  \/ SubscriptionCancel(a)
  \/ PortalCreate(a)
  \/ SubscriptionRetrieve(a)
  \/ SubscriptionUpdate(a)
  \/ Return(a)

AppNext ==
  \/ \E a \in ActIds : ActNext(a)
  \/ ConfirmPayment
  \/ PayInvoice
  \/ CompleteCheckout
  \/ DeliverPending
  \/ Respond

AppSpec == AppInit /\ [][AppNext]_vars

(***************************************************************************)
(* Properties of the billing actions and of the checkout flow              *)
(***************************************************************************)
\* C8: once the checkout.session.completed event of a paid session of
\* createCheckoutSession is processed, the flags of the session's plan are
\* in the stored flags of the session's customer, for a one-time plan and
\* for a recurring plan the subscription is still on.
C8_CheckoutGrantsPlanFlags ==
  ( /\ last.event.type = "checkout.session.completed"
    /\ last.status = 200
    /\ last.event.object.mode = "subscription"
          => Includes(last.retrieved.items, last.event.object.price_id) )
  => \A u \in RowsOfCustomer(profiles, last.event.object.customer) :
       PlanFlags({last.event.object.price_id}) \subseteq FlagSet(profiles[u])

\* C9: no billing action throws: whichever datastore or provider call
\* fails, the action ends by returning a result.
C9_ActionsReturnTheirErrors ==
  \A a \in ActIds : At(a, "done") => acts[a].result /= Thrown

\* C10: an action called without a session user returns 'Not authenticated.'
\* and has read no profile, written no profile and called the provider for
\* nothing.
C10_NoSessionNoEffect ==
  \A a \in ActIds :
    ( ~At(a, "new") /\ ~At(a, "returned") /\ acts[a].user = Null )
    => /\ At(a, "done")
       /\ acts[a].result = "Not authenticated."
       /\ acts[a].reads = 0 /\ acts[a].writes = 0 /\ acts[a].calls = 0

\* updateSubscription called without a session while the profile holds an
\* active monthly subscription that a signed-in call would move to the
\* annual plan
C10_Witness ==
  \E a \in ActIds :
    /\ At(a, "done")
    /\ acts[a].action = "updateSubscription" /\ acts[a].user = Null
    /\ acts[a].priceId = PriceProAnnual
    /\ acts[a].result = "Not authenticated."
    /\ profiles["u1"].stripe_subscription_status = "active"
    /\ profiles["u1"].stripe_price_id = PriceProMonthly

\* a call of createSubscription with a price that is no recurring plan's, or
\* of createPaymentIntent with a price that is no one-time plan's
WrongPlanCall(act) ==
  LET plan == getPlanByPriceId(act.priceId)
  IN \/ /\ act.action = "createSubscription"
        /\ (plan.id = Null \/ plan.interval = "one_time")
     \/ /\ act.action = "createPaymentIntent"
        /\ (plan.id = Null \/ plan.interval /= "one_time")

\* C11: createSubscription with a one-time or unknown price, and
\* createPaymentIntent with a recurring or unknown price, called by a
\* signed-in user, return 'Invalid price selection.' in the step that calls
\* them, with no profile read or write and no provider call: the profiles,
\* the provider's account and the emitted events are unchanged.
C11_WrongPlanIsRefusedWithoutEffect ==
  [][ \A a \in ActIds :
        ( At(a, "new") /\ acts'[a].pc /= "new" /\ acts'[a].user /= Null
          /\ WrongPlanCall(acts'[a]) )
        => /\ acts'[a].pc = "done"
           /\ acts'[a].result = "Invalid price selection."
           /\ acts'[a].reads = 0 /\ acts'[a].writes = 0 /\ acts'[a].calls = 0
           /\ profiles' = profiles /\ stripe' = stripe /\ pending' = pending ]_vars

\* the signed-in user without a customer has called createSubscription with
\* the content pack's price
C11_Witness ==
  \E a \in ActIds :
    /\ At(a, "done")
    /\ acts[a].action = "createSubscription" /\ acts[a].user = "u1"
    /\ acts[a].priceId = PriceContentPack
    /\ acts[a].result = "Invalid price selection."
    /\ profiles["u1"].stripe_customer_id = Null
    /\ stripe = EmptyAccount

\* the call a is updateSubscription by a signed-in user to the price the
\* provider has on the first item of the subscription stored on the
\* caller's profile
OnPlan(a) ==
  /\ acts[a].action = "updateSubscription"
  /\ acts[a].user /= Null
  /\ LET i == SubscriptionIndex(profiles[acts[a].user].stripe_subscription_id)
     IN /\ i /= 0
        /\ stripe.subscriptions[i].items /= <<>>
        /\ Head(stripe.subscriptions[i].items) = acts[a].priceId

\* C12: updateSubscription to the price the customer is on, whatever the
\* stored subscription status and whether or not the profile already
\* reflects that price, never reaches the provider's update call and, unless
\* the profile select fails, ends with 'You are already on this plan.'.
C12_SamePlanIsRefusedBeforeTheProvider ==
  [][ \A a \in ActIds :
        ( OnPlan(a) /\ (At(a, "profile_read") \/ At(a, "subscription_retrieve")) )
        => /\ acts'[a].pc /= "subscription_update"
           /\ acts'[a].pc = "done"
                => acts'[a].result \in {"You are already on this plan.", DatastoreError}
    ]_vars

\* C13: no step of cancelSubscription changes a profile, and the step
\* that calls the provider leaves every subscription as it was except that a
\* successful call sets cancel_at_period_end on the subscription whose id
\* the profile stored: the status stays, so nothing is cancelled at once.
C13_CancelIsAtPeriodEndAndWritesNothing ==
  [][ \A a \in ActIds :
        ( acts'[a] /= acts[a]
          /\ "cancelSubscription" \in {acts[a].action, acts'[a].action} )
        => /\ profiles' = profiles
           /\ acts'[a].writes = 0
           /\ At(a, "subscription_cancel")
                => LET i == SubscriptionIndex(acts[a].row.stripe_subscription_id)
                   IN IF acts'[a].result = Returned
                      THEN stripe' =
                             [stripe EXCEPT
                                !.subscriptions[i].cancel_at_period_end = TRUE]
                      ELSE stripe' = stripe
    ]_vars

\* cancelSubscription has returned for a user with an active monthly
\* subscription: the provider is to cancel at period end and the profile
\* still stores the status and the subscription flags
C13_Witness ==
  \E a \in ActIds :
    /\ At(a, "done")
    /\ acts[a].action = "cancelSubscription" /\ acts[a].result = Returned
    /\ \E i \in 1..Len(stripe.subscriptions) :
         /\ stripe.subscriptions[i].id = profiles["u1"].stripe_subscription_id
         /\ stripe.subscriptions[i].cancel_at_period_end
         /\ stripe.subscriptions[i].status = "active"
    /\ profiles["u1"].stripe_subscription_status = "active"
    /\ profiles["u1"].feature_flags = <<"pro_content", "download_access">>

\* C14: a request whose signature verifies is answered 500 when the
\* dispatched handler threw and 200 when it did not, a handler that returned
\* early without a write included.
C14_VerifiedRequestIs500ExactlyOnThrow ==
  ( last /= NoRequest /\ last.signature = "valid" )
  => /\ last.dispatched
     /\ last.status = (IF last.threw THEN 500 ELSE 200)

\* an event whose handler threw was answered 500, and its redelivery, whose
\* handler returned, 200
C14_Witness ==
  /\ last.signature = "valid"
  /\ last.redeliveryOf = 500
  /\ ~last.threw
  /\ last.status = 200

HandledTypes ==
  {"payment_intent.succeeded", "invoice.paid", "customer.subscription.created",
   "customer.subscription.updated", "customer.subscription.deleted",
   "checkout.session.completed"}

\* C15: a verified event of a type the switch has no case for is answered
\* 200 with no provider call, no profile read and no profile write, and the
\* profiles are what they were before the request.
C15_UnhandledTypeIsAcknowledgedAndIgnored ==
  ( last /= NoRequest /\ last.signature = "valid"
    /\ last.event.type \notin HandledTypes )
  => /\ last.status = 200
     /\ last.reads = 0 /\ last.writes = 0 /\ last.calls = 0
     /\ profiles = last.before

\* customer.updated was delivered for a profile that holds flags
C15_Witness ==
  /\ last.signature = "valid"
  /\ last.event.type = "customer.updated"
  /\ last.status = 200
  /\ FlagSet(Row) /= {}

(***************************************************************************)
(* The provider's retries: an event stays with the provider until a        *)
(* request carrying it is answered 200                                     *)
(***************************************************************************)
\* events the provider holds for delivery at once
MaxPending == 2

\* the events followed through their retries: one whose handler reads and
\* writes, one whose handler first retrieves from the provider, and one
\* about a customer of the provider's account that no profile row stores
RetryEvents ==
  { event \in ProbeEvents :
      event.type \in {"customer.subscription.updated", "invoice.paid"} }
  \cup {Event("payment_intent.succeeded",
               PaymentIntent("pi_2", "cus_2", PriceContentPack))}

\* what the provider returns for the object an event refers to
RetryRetrieved(event) ==
  IF event \in ProbeEvents THEN CHOOSE o \in ProbeRetrieved(event) : TRUE
  ELSE NoObject

\* the provider emits an event
Emit ==
  /\ Cardinality(pending) < MaxPending
  /\ \E event \in RetryEvents \ pending : pending' = pending \cup {event}
  /\ UNCHANGED <<profiles, hookVars, hooks, acts, stripe>>

\* the provider delivers an event it holds; the request is answered and the
\* event is dropped on 200 and kept for a retry otherwise
Attempt(event, fail) ==
  /\ event \in pending
  /\ Request("valid", event, RetryRetrieved(event), fail,
             IF last.event = event THEN last.status ELSE 0)
  /\ pending' = IF last'.status = 200 THEN pending \ {event} ELSE pending
  /\ UNCHANGED <<oneTimeGranted, subscribed>>

\* a delivery during which a call fails
AttemptFailing ==
  /\ pending /= {}
  /\ \E event \in pending : \E fail \in FailModes \ {"none"} : Attempt(event, fail)

\* a delivery during which every call succeeds
AttemptSucceeding(event) ==
  /\ event \in pending
  /\ Attempt(event, "none")

RetryNext ==
  \/ Emit
  \/ AttemptFailing
  \/ \E event \in RetryEvents : AttemptSucceeding(event)

\* the provider retries and failures are transient: a delivery of a held
\* event during which every call succeeds is not postponed for ever
RetrySpec ==
  /\ HookInit
  /\ [][RetryNext]_vars
  /\ \A event \in RetryEvents : WF_vars(AttemptSucceeding(event))

\* C16: with retries and transient failures every event the provider holds
\* is eventually answered 200; a request answered 500 leaves the profiles as
\* they were and a request answered 200 leaves them as one processing
\* without failure does, so failed attempts followed by the successful
\* retry amount to a single processing.
C16_RetriedEventIsEventuallyApplied ==
  /\ \A event \in RetryEvents :
       (event \in pending) ~> (last.event = event /\ last.status = 200)
  /\ [][ last' /= last
          => /\ last'.status = 500 => profiles' = profiles
             /\ last'.status = 200
                  => profiles' = POST(profiles, "valid", last'.event,
                                      last'.retrieved, "none").out.profiles
     ]_vars

StripeUseCheckoutValues == {Null, "true", "false", "1"}

\* envSchema: z.string().optional().transform(val => val !== 'false')
\* .default('true'); an unset value takes the default, which transforms to
\* true
envSchemaUseCheckout(val) ==
  IF val = Null THEN "true" /= "false" ELSE val /= "false"

\* BillingForm.handleSelectPlan: the action the form calls for a plan
handleSelectPlan(plan) ==
  IF plan.interval = "one_time" THEN "createPaymentIntent"
  ELSE "createSubscription"

\* the customer selects a plan in the form of a deployment
SelectPlan(a) ==
  /\ At(a, "new")
  /\ \A b \in ActIds : b < a => acts[b].pc = "returned"
  /\ \E i \in 1..Len(billingPlans) : \E user \in Callers :
       LET plan == billingPlans[i]
           action == handleSelectPlan(plan)
           next == Begin(action, user, plan.priceId)
       IN acts' = [acts EXCEPT ![a].pc = next.pc, ![a].result = next.result,
                               ![a].action = action, ![a].user = user,
                               ![a].priceId = plan.priceId]
  /\ UNCHANGED <<profiles, hookVars, hooks, stripe, pending>>

\* the form receives the response: setError or setClientSecret
FormResponse(a) ==
  /\ At(a, "done")
  /\ acts' = [acts EXCEPT ![a].pc = "returned"]
  /\ UNCHANGED <<profiles, hookVars, hooks, stripe, pending>>

\* a deployment with some value of STRIPE_USE_CHECKOUT, nobody has bought
FormInit ==
  /\ profiles = [u \in Users |-> NewProfile(Null)]
  /\ last = NoRequest
  /\ oneTimeGranted = {}
  /\ subscribed = NoSubscription
  /\ hooks = [h \in HookIds |-> NewHook]
  /\ \E val \in StripeUseCheckoutValues :
       acts = [a \in ActIds |-> NewAct @@ [STRIPE_USE_CHECKOUT |-> val]]
  /\ stripe = EmptyAccount
  /\ pending = {}

FormNext ==
  \E a \in ActIds :
    \/ SelectPlan(a)
    \/ EnsureRead(a)
    \/ EnsureCreate(a)
    \/ EnsureWrite(a)
    \/ PriceRetrieve(a)
    \/ PaymentIntentCreate(a)
    \/ SubscriptionCreate(a)
    \/ FormResponse(a)

FormSpec == FormInit /\ [][FormNext]_vars

\* C19: the action the form has called for a selected plan is
\* createCheckoutSession when the parsed STRIPE_USE_CHECKOUT is true (unset
\* or anything but 'false'), and createPaymentIntent for a one-time plan or
\* createSubscription for a recurring plan when it is 'false'.
C19_FormFollowsTheCheckoutToggle ==
  \A a \in ActIds :
    acts[a].action /= Null
    => IF envSchemaUseCheckout(acts[a].STRIPE_USE_CHECKOUT)
       THEN acts[a].action = "createCheckoutSession"
       ELSE acts[a].action =
              (IF getPlanByPriceId(acts[a].priceId).interval = "one_time"
               THEN "createPaymentIntent" ELSE "createSubscription")

(***************************************************************************)
(* Purchase actions of one user running at the same time                   *)
(***************************************************************************)
\* the purchase actions, each with a price it accepts
PurchaseCalls ==
  {<<"createCheckoutSession", PriceProMonthly>>,
   <<"createPaymentIntent", PriceContentPack>>,
   <<"createSubscription", PriceProMonthly>>}

\* the signed-in user starts a purchase action while others may be running:
\* server actions of one user are separate requests
InvokePurchase(a) ==
  /\ At(a, "new")
  /\ \E call \in PurchaseCalls :
       LET next == Begin(call[1], "u1", call[2])
       IN acts' = [acts EXCEPT ![a] =
                     [NewAct EXCEPT !.pc = next.pc, !.result = next.result,
                                    !.action = call[1], !.user = "u1",
                                    !.priceId = call[2]]]
  /\ UNCHANGED <<profiles, hookVars, hooks, stripe, pending>>

PurchaseNext ==
  \E a \in ActIds :
    \/ InvokePurchase(a)
    \/ EnsureRead(a)
    \/ EnsureCreate(a)
    \/ EnsureWrite(a)
    \/ SessionCreate(a)
    \/ PriceRetrieve(a)
    \/ PaymentIntentCreate(a)
    \/ SubscriptionCreate(a)

PurchaseSpec == AppInit /\ [][PurchaseNext]_vars

\* C20: once every purchase action of the user who started without a
\* stripe_customer_id has finished, the provider account holds at most one
\* customer, exactly one if an action succeeded, and the customer each
\* successful action attached its payment object to is the stored
\* stripe_customer_id.
C20_OneCustomerPerUser ==
  ( \A a \in ActIds : At(a, "done") )
  => /\ Len(stripe.customers) <= 1
     /\ \A a \in ActIds :
          acts[a].result = Returned
          => /\ Len(stripe.customers) = 1
             /\ acts[a].customerId = profiles["u1"].stripe_customer_id

(***************************************************************************)
(* getFlagsForPriceIds on the lists the handlers pass to it                *)
(***************************************************************************)
\* the list the handler of the answered request passed to
\* getFlagsForPriceIds
PassedPriceIds ==
  IF last.event.type = "payment_intent.succeeded"
  THEN <<last.event.object.price_id>>
  ELSE SubscriptionPriceIds(last.event.object)

\* the list s in the order p
Permuted(s, p) == [i \in 1..Len(s) |-> s[p[i]]]

\* C17: for the list of price ids a handler passes, getFlagsForPriceIds
\* returns every flag of every catalog plan whose priceId is in the list and
\* nothing else, no flag twice, and the same set for every order of the
\* list.
C17_FlagsAreTheUnionWhateverTheOrder ==
  ( last.event.type \in {"payment_intent.succeeded",
                         "customer.subscription.created",
                         "customer.subscription.updated"} )
  => LET priceIds == PassedPriceIds
         flags == getFlagsForPriceIds(priceIds)
     IN /\ Elems(flags) = PlanFlags(Elems(priceIds))
        /\ Len(flags) = Cardinality(Elems(flags))
        /\ \A p \in Permutations(1..Len(priceIds)) :
             Elems(getFlagsForPriceIds(Permuted(priceIds, p))) = Elems(flags)

\* the annual price before the monthly one: two plans that share flags
C17_Witness ==
  /\ last.event.type = "customer.subscription.updated"
  /\ last.status = 200
  /\ PassedPriceIds = <<PriceProAnnual, PriceProMonthly>>
  /\ FlagSet(Row) = {"pro_content", "download_access", "priority_support"}

(***************************************************************************)
(* Subscriptions that are not paid, ended or several                       *)
(***************************************************************************)
\* the subscription flags a row stores
SubscriptionFlagsOf(row) == FlagSet(row) \cap subscriptionFlagSet

\* C21: a processed customer.subscription.created or
\* customer.subscription.updated event whose subscription is 'incomplete' or
\* 'incomplete_expired' leaves every row with no subscription flag it did
\* not store before.
C21_UnpaidSubscriptionGrantsNothing ==
  ( /\ last.status = 200
    /\ last.event.type \in {"customer.subscription.created",
                            "customer.subscription.updated"}
    /\ last.event.object.status \in {"incomplete", "incomplete_expired"} )
  => \A u \in Users :
       SubscriptionFlagsOf(profiles[u]) \subseteq SubscriptionFlagsOf(last.before[u])

\* C22: when the last subscription event processed for cus_1 was the
\* customer.subscription.deleted of the subscription the row stores, a
\* processed customer.subscription.created or customer.subscription.updated
\* event for that subscription adds no subscription flag to the row and
\* leaves the stored status as the deletion wrote it.
C22_DeletedSubscriptionStaysDeleted ==
  [][ ( /\ subscribed.status = "deleted"
        /\ last' /= last
        /\ last'.status = 200
        /\ last'.event.type \in {"customer.subscription.created",
                                 "customer.subscription.updated"}
        /\ last'.event.object.customer = "cus_1"
        /\ last'.event.object.id = Row.stripe_subscription_id )
      => /\ SubscriptionFlagsOf(Row') \subseteq SubscriptionFlagsOf(Row)
         /\ Row'.stripe_subscription_status = Row.stripe_subscription_status
    ]_vars

(***************************************************************************)
(* Overlapping invocations followed by one event with the current state    *)
(***************************************************************************)
\* the states the provider can hold for the subscription of cus_1 once the
\* overlapping invocations are over
CurrentSubs ==
  { Subscription("sub_1", "cus_1", st, it, pe, NoTime) :
      st \in {"active", "past_due", "canceled"},
      it \in {<<PriceProMonthly>>, <<PriceProAnnual>>, <<>>},
      pe \in PeriodEnds }

\* after the overlapping invocations have all answered, one more request is
\* processed alone: customer.subscription.updated carrying the current
\* subscription, or invoice.paid whose retrieval returns it
Settle ==
  /\ \A h \in HookIds : hooks[h].pc = "done"
  /\ last = NoRequest
  /\ \E current \in CurrentSubs :
       \/ Request("valid", Event("customer.subscription.updated", current),
                  NoObject, "none", 0)
       \/ Request("valid", Event("invoice.paid", Invoice(current.id)),
                  current, "none", 0)
  /\ UNCHANGED <<oneTimeGranted, subscribed, pending>>

SettleNext == OverlapNext \/ Settle

SettleSpec == HookInit /\ [][SettleNext]_vars

\* C23: whatever the overlapping invocations left in the row, the request
\* processed after them with the provider's current subscription stores
\* that subscription's id, status, first price id and period end, and makes
\* the subscription flags of the row exactly the flags of the catalog plans
\* of its prices; the other flags stay.
C23_CurrentStateEventRepairsTheRow ==
  [][ ( last' /= last /\ last'.status = 200 )
      => LET current == Carried(last'.event, last'.retrieved)
         IN /\ Row'.stripe_subscription_id = current.id
            /\ Row'.stripe_subscription_status = current.status
            /\ Row'.stripe_price_id =
                 (IF current.items = <<>> THEN Null ELSE current.items[1])
            /\ Row'.stripe_current_period_end =
                 (IF current.current_period_end = 0 THEN Null
                  ELSE IsoString(current.current_period_end))
            /\ SubscriptionFlagsOf(Row') = PlanFlags(Elems(current.items))
            /\ FlagSet(Row') \ subscriptionFlagSet = FlagSet(Row) \ subscriptionFlagSet
    ]_vars

\* a deletion and an update overlapped and the update wrote last, so the
\* row showed an active annual subscription; the invoice.paid processed
\* afterwards retrieved the monthly subscription and the row follows it
C23_Witness ==
  /\ last.status = 200
  /\ last.event.type = "invoice.paid"
  /\ \A h \in HookIds : hooks[h].status = 200
  /\ \E h \in HookIds : hooks[h].kind = "deleted"
  /\ RowBefore.stripe_price_id = PriceProAnnual
  /\ "priority_support" \in FlagSet(RowBefore)
  /\ Row.stripe_price_id = PriceProMonthly
  /\ FlagSet(Row) \cap subscriptionFlagSet = {"pro_content", "download_access"}

(***************************************************************************)
(* A customer with more than one subscription                              *)
(***************************************************************************)
\* the calls that start a subscription
SubscribingCalls ==
  {<<"createSubscription", PriceProMonthly>>,
   <<"createSubscription", PriceProAnnual>>,
   <<"createCheckoutSession", PriceProAnnual>>}

\* the signed-in user starts a subscription; neither action looks at the
\* subscription the profile already records
InvokeSubscribing(a) ==
  /\ At(a, "new")
  /\ \A b \in ActIds : b < a => acts[b].pc = "returned"
  /\ \E call \in SubscribingCalls :
       LET next == Begin(call[1], "u1", call[2])
       IN acts' = [acts EXCEPT ![a] =
                     [NewAct EXCEPT !.pc = next.pc, !.result = next.result,
                                    !.action = call[1], !.user = "u1",
                                    !.priceId = call[2]]]
  /\ UNCHANGED <<profiles, hookVars, hooks, stripe, pending>>

\* the provider ends a subscription (cancellation taking effect, or an
\* unpaid one expiring) and emits customer.subscription.deleted
EndSubscription ==
  /\ Idle
  /\ \E i \in 1..Len(stripe.subscriptions) :
       /\ stripe.subscriptions[i].status /= "canceled"
       /\ stripe' = [stripe EXCEPT !.subscriptions[i].status = "canceled"]
       /\ pending' = pending \cup
            {Event("customer.subscription.deleted",
                   SubscriptionObject([stripe.subscriptions[i] EXCEPT !.status = "canceled"]))}
  /\ UNCHANGED <<profiles, hookVars, hooks, acts>>

LapseNext ==
  \/ \E a \in ActIds :
       \/ InvokeSubscribing(a)
       \/ EnsureRead(a)
       \/ EnsureCreate(a)
       \/ EnsureWrite(a)
       \/ SessionCreate(a)
       \/ SubscriptionCreate(a)
       \/ Return(a)
  \/ PayInvoice
  \/ CompleteCheckout
  \/ EndSubscription
  \/ DeliverPending
  \/ Respond

LapseSpec == AppInit /\ [][LapseNext]_vars

\* C24: when the row of the user recorded an active subscription and the
\* processed customer.subscription.deleted is about another subscription of
\* the same customer, the recorded one being still active at the provider,
\* the row still stores the recorded subscription's id and status and the
\* flags of its plan.
C24_OtherSubscriptionKeepsItsFlags ==
  ( /\ last.status = 200
    /\ last.event.type = "customer.subscription.deleted"
    /\ last.before["u1"].stripe_customer_id = last.event.object.customer
    /\ last.before["u1"].stripe_subscription_status = "active"
    /\ last.before["u1"].stripe_subscription_id /= last.event.object.id )
  => \A i \in 1..Len(stripe.subscriptions) :
       ( /\ stripe.subscriptions[i].id = last.before["u1"].stripe_subscription_id
         /\ stripe.subscriptions[i].customer = last.event.object.customer
         /\ stripe.subscriptions[i].status = "active" )
       => /\ Row.stripe_subscription_id = stripe.subscriptions[i].id
          /\ Row.stripe_subscription_status = "active"
          /\ PlanFlags(Elems(stripe.subscriptions[i].items)) \subseteq FlagSet(Row)

(***************************************************************************)
(* Changing the plan                                                       *)
(***************************************************************************)
\* what updateSubscription has checked when it calls
\* stripe.subscriptions.update
UpdateAllowed(act) ==
  /\ act.user /= Null
  /\ getPlanByPriceId(act.priceId).interval \in {"month", "year"}
  /\ act.row.stripe_subscription_id /= Null
  /\ act.row.stripe_subscription_status \in {"active", "trialing"}
  /\ act.row.stripe_price_id /= act.priceId
  /\ LET i == SubscriptionIndex(act.row.stripe_subscription_id)
     IN i /= 0 /\ stripe.subscriptions[i].items /= <<>>

\* C25: no step of updateSubscription writes a profile; the provider's
\* account changes only in the step that calls the subscription update, and
\* that step is taken only by a signed-in caller with a recurring catalog
\* price, a stored subscription id, a stored status 'active' or 'trialing',
\* a stored price other than the new one and a retrieved subscription with
\* an item; an invocation that ends without that step ends with an error.
C25_UpdateOnlyAfterEveryCheck ==
  [][ \A a \in ActIds :
        ( acts'[a] /= acts[a]
          /\ "updateSubscription" \in {acts[a].action, acts'[a].action} )
        => /\ profiles' = profiles
           /\ acts'[a].writes = 0
           /\ At(a, "subscription_update") => UpdateAllowed(acts[a])
           /\ stripe' /= stripe => At(a, "subscription_update")
           /\ ( acts'[a].pc = "done" /\ ~At(a, "subscription_update") )
                => acts'[a].result \notin {Returned, Null, Thrown}
           /\ ( acts'[a].pc = "done" /\ acts'[a].result = Returned )
                => acts'[a].calls = 2 /\ acts'[a].reads = 1
    ]_vars

\* updateSubscription has moved an active monthly subscription to the annual
\* price at the provider; the profile still stores the monthly price
C25_Witness ==
  \E a \in ActIds :
    /\ At(a, "done")
    /\ acts[a].action = "updateSubscription" /\ acts[a].result = Returned
    /\ acts[a].priceId = PriceProAnnual
    /\ acts[a].row.stripe_subscription_status = "active"
    /\ profiles["u1"].stripe_price_id = PriceProMonthly
    /\ \E i \in 1..Len(stripe.subscriptions) :
         /\ stripe.subscriptions[i].id = profiles["u1"].stripe_subscription_id
         /\ stripe.subscriptions[i].items = <<PriceProAnnual>>

(***************************************************************************)
(* The price the provider holds and the catalog                            *)
(***************************************************************************)
\* C26: every payment intent createPaymentIntent has created (the ones that
\* carry the price_id metadata) is for the amount of the catalog plan of its
\* price: a provider price whose unit_amount differs from the catalog amount
\* ends in 'Price configuration error.' with no payment intent.
C26_MismatchedPriceCreatesNoPaymentIntent ==
  \A i \in 1..Len(stripe.paymentIntents) :
    stripe.paymentIntents[i].price_id /= Null
    => stripe.paymentIntents[i].amount
         = getPlanByPriceId(stripe.paymentIntents[i].price_id).amount

(***************************************************************************)
(* Error results of the purchase actions                                   *)
(***************************************************************************)
PurchaseActions ==
  {"createPaymentIntent", "createSubscription", "createCheckoutSession"}

\* C27: the step in which createPaymentIntent, createSubscription or
\* createCheckoutSession ends with a returned error message adds nothing to
\* the provider's account, and the invocation has written no profile (so it
\* has stored no customer it created).
C27_ErrorResultMeansNoEffect ==
  [][ \A a \in ActIds :
        ( /\ acts'[a] /= acts[a]
          /\ acts'[a].action \in PurchaseActions
          /\ acts'[a].pc = "done"
          /\ acts'[a].result \notin {Returned, Thrown} )
        => /\ stripe' = stripe
           /\ acts'[a].writes = 0
    ]_vars

(***************************************************************************)
(* Reads and writes of one webhook invocation                              *)
(***************************************************************************)
\* C28: a webhook invocation reads feature_flags at most once and writes at
\* most once, never writes without having read, and changes the table only
\* by that write; when it is answered 500 every row is as it was before the
\* invocation.
C28_NoPartialUpdate ==
  /\ last.reads <= 1 /\ last.writes <= 1
  /\ last.writes = 1 => last.reads = 1
  /\ last /= NoRequest =>
       /\ last.writes = 0 => profiles = last.before
       /\ last.status = 500 => profiles = last.before

\* checkout.session.completed for a paid one-time session whose profile
\* update failed: 500, and the row is without the flag as before
C28_Witness ==
  /\ last.status = 500
  /\ last.event.type = "checkout.session.completed"
  /\ last.reads = 1 /\ last.writes = 1 /\ last.calls = 1
  /\ last.retrieved.price_id = PriceContentPack
  /\ "content_pack" \notin FlagSet(Row)
  /\ Row = RowBefore

(***************************************************************************)
(* invoice.paid and customer.subscription.updated                          *)
(***************************************************************************)
\* the table after a customer.subscription.updated event carrying
\* subscription is processed, starting from the table profs
AfterSubscriptionUpdated(profs, subscription) ==
  POST(profs, "valid", Event("customer.subscription.updated", subscription),
       NoObject, "none").out.profiles

\* C29: a processed invoice.paid whose invoice names a subscription made
\* one provider call and leaves the table as customer.subscription.updated
\* carrying the retrieved subscription would have left it; an invoice.paid
\* without a subscription is answered 200 with no provider call, no read
\* and no write.
C29_InvoicePaidIsSubscriptionUpdated ==
  ( last.signature = "valid" /\ last.event.type = "invoice.paid" )
  => IF last.event.object.subscription = Null
     THEN /\ last.status = 200
          /\ last.calls = 0 /\ last.reads = 0 /\ last.writes = 0
          /\ profiles = last.before
     ELSE /\ last.calls = 1
          /\ last.status = 200
               => profiles = AfterSubscriptionUpdated(last.before, last.retrieved)

\* the row stored the monthly plan; invoice.paid retrieved the subscription
\* in trial on the annual price and the row follows the retrieved object
C29_Witness ==
  /\ last.status = 200
  /\ last.event.type = "invoice.paid"
  /\ last.event.object.subscription = "sub_2"
  /\ last.retrieved.status = "trialing"
  /\ RowBefore.stripe_price_id = PriceProMonthly
  /\ RowBefore.stripe_subscription_id = "sub_1"
  /\ Row.stripe_subscription_id = "sub_2"
  /\ Row.stripe_subscription_status = "trialing"
  /\ Row.stripe_price_id = PriceProAnnual
  /\ "priority_support" \in FlagSet(Row)

(***************************************************************************)
(* The stored flags under overlapping invocations                          *)
(***************************************************************************)
\* C30: in every state the overlapping webhook invocations reach from rows
\* with empty feature_flags, every row's feature_flags holds no flag twice
\* and only flags of catalog plans.
C30_StoredFlagsAreCatalogFlagsOnce ==
  \A u \in Users :
    /\ Len(profiles[u].feature_flags) = Cardinality(FlagSet(profiles[u]))
    /\ FlagSet(profiles[u]) \subseteq PlanFlags(PriceIds)
    /\ FlagSet(profiles[u]) \subseteq
         {"content_pack", "pro_content", "download_access", "priority_support"}

\* a payment_intent.succeeded and a subscription event overlapped: both read
\* the empty flags and both wrote, the subscription's write last
C30_Witness ==
  /\ \A h \in HookIds : hooks[h].pc = "done" /\ hooks[h].status = 200
  /\ \A h \in HookIds : hooks[h].currentFlags = <<>>
  /\ \E h \in HookIds :
       hooks[h].kind = "payment_intent" /\ hooks[h].object.price_id = PriceContentPack
  /\ \E h \in HookIds : hooks[h].kind = "subscription"
  /\ Row.feature_flags = <<"pro_content", "download_access", "priority_support">>

====
